---------------------------- MODULE Spec2Model ----------------------------
(***************************************************************************)
(* A model of the audiobook pipeline of ai-diobook: the chapter chunker    *)
(* (src/textchunk/chunker.py), the unit renderer (src/tts/generate.py) and *)
(* the audio stitcher (src/audio/stitch.py), working on one shared JSON    *)
(* document (data/chunks.json) and one directory of rendered unit files    *)
(* (data/audio).                                                           *)
(*                                                                         *)
(* Text is a sequence of one-character strings, so that len(), strip(),    *)
(* replace() and split() are computed character by character as Python     *)
(* does.  A waveform is its duration in milliseconds, which is all that    *)
(* stitch_audio reads of it (len(segment)).                                *)
(***************************************************************************)
EXTENDS Integers, Sequences, FiniteSets, TLC

VARIABLES
    input_txt,       \* content of the input text file (data/extracted.txt)
    max_chunk_size,  \* chunk_text's max_chunk_size argument
    doc_state,       \* data/chunks.json: "absent" or "json"
    doc,             \* the JSON object held by data/chunks.json (field -> value)
    files,           \* unit files present in the input directory
    wav_ms,          \* duration in ms of each unit file present
    fade_duration,   \* stitch_audio's fade_duration argument
    output_wav,      \* exported waveform: <<>> (no file) or <<duration in ms>>
    ret,             \* outcome of the last stage call: [op, status]
    pc,              \* position of each concurrently running stage
    local,           \* each running stage's local variables
    overlap,         \* history: a stage started while the other was running
    tts_calls,       \* history: the renderer calls of the last generate_audio run
    render_count     \* history: unit -> number of successful renders so far

vars == <<input_txt, max_chunk_size, doc_state, doc, files, wav_ms,
          fade_duration, output_wav, ret, pc, local, overlap, tts_calls,
          render_count>>

---------------------------------------------------------------------------
(* Bounds of the model *)

\* chapters that may have unit files / be counted by chapter_count
MaxChapters == 2
\* chunk files per chapter carry the indices 0 .. MaxChunks-1
MaxChunks == 2
\* longest enumerated input text, in characters
MaxLen == 5
\* largest enumerated max_chunk_size
MaxChunkSize == 3

(* Program constants *)

\* AudioSegment.silent(duration=1000)
PauseMs == 1000
\* fade_duration: int = 100
DefaultFade == 100

---------------------------------------------------------------------------
(* Helpers *)

Max(a, b) == IF a >= b THEN a ELSE b

\* str(n) for the chapter numbers of the model
Str(n) == <<"0", "1", "2", "3", "4", "5", "6", "7", "8", "9">>[n + 1]

\* {}: the empty JSON object / Python dict
EmptyMap == <<>>

\* d[k] = v on a dict: adds the key or replaces its value
Put(d, k, v) == (k :> v) @@ d

RECURSIVE SortedSeq(_)
\* sorted(): the ascending sequence of a finite set of integers
SortedSeq(S) ==
    IF S = {} THEN <<>>
    ELSE LET m == CHOOSE x \in S : \A y \in S : x <= y
         IN  <<m>> \o SortedSeq(S \ {m})

---------------------------------------------------------------------------
(* Unit files and plan items (src/audio/stitch.py, src/tts/generate.py) *)

\* "__PAUSE__"
PAUSE == [kind |-> "pause", ch |-> 0, idx |-> 0]
\* title.wav, author.wav, chapter_count.wav
MetaUnit(name) == [kind |-> name, ch |-> 0, idx |-> 0]
\* chapter_{n}.wav
Announce(n) == [kind |-> "chapter", ch |-> n, idx |-> 0]
\* chunk_{chapter:02d}_{index:04d}.wav
ChunkUnit(c, i) == [kind |-> "chunk", ch |-> c, idx |-> i]

\* f"chapter_{n}.wav" in wav_file: only the path of chapter n's
\* announcement holds that substring (input_dir being data/audio)
IsAnnouncement(item, n) == item.kind = "chapter" /\ item.ch = n

\* the title, author and chapter_count units that exist, in that order
MetaItems(fs) ==
    SelectSeq(<<MetaUnit("title"), MetaUnit("author"), MetaUnit("chapter_count")>>,
              LAMBDA u : u \in fs)

\* sorted(glob("chunk_{c:02d}_*.wav")): the fixed-width index makes the
\* lexicographic order of the paths the numeric order of the indices
ChapterChunks(fs, c) ==
    LET idxs == SortedSeq({f.idx : f \in {g \in fs : g.kind = "chunk" /\ g.ch = c}})
    IN  [i \in 1..Len(idxs) |-> ChunkUnit(c, idxs[i])]

RECURSIVE ChapterItems(_, _, _)
\* for chapter_num in range(c, chapter_count + 1): announcement between
\* two pauses if its file exists, then the chapter's chunks
ChapterItems(fs, c, cc) ==
    IF c > cc THEN <<>>
    ELSE (IF Announce(c) \in fs THEN <<PAUSE, Announce(c), PAUSE>> ELSE <<>>)
         \o ChapterChunks(fs, c)
         \o ChapterItems(fs, c + 1, cc)

\* the plan left as built, trailing pauses kept
KeepTrailingPause(p) == p

RECURSIVE StripTrailingPause(_)
\* while files_to_stitch and files_to_stitch[-1] == "__PAUSE__": pop()
StripTrailingPause(p) ==
    IF p # <<>> /\ p[Len(p)] = PAUSE
    THEN StripTrailingPause(SubSeq(p, 1, Len(p) - 1))
    ELSE p

\* files_to_stitch
FilesToStitch(fs, cc) ==
    StripTrailingPause(MetaItems(fs) \o ChapterItems(fs, 1, cc))

---------------------------------------------------------------------------
(* The join loop and the chapter markers (src/audio/stitch.py) *)

\* AudioSegment.append(seg, crossfade): the length of the result, or -1
\* where pydub raises ValueError (crossfade longer than either segment)
AppendLen(a, b, crossfade) ==
    IF crossfade = 0 THEN a + b
    ELSE IF crossfade > a \/ crossfade > b THEN 0 - 1
    ELSE a + b - crossfade

\* len of the segment a plan item is loaded as
ItemMs(item, wav) == IF item = PAUSE THEN PauseMs ELSE wav[item]

\* chapter_idx before the loop: 1 if the first item is chapter 1's announcement
InitialChapterIdx(plan) == IF IsAnnouncement(plan[1], 1) THEN 1 ELSE 0

\* the state before the loop: combined, current_ms, chapter_idx, chapter_markers
LoopInit(plan, wav) ==
    LET ci == InitialChapterIdx(plan)
    IN  [combined        |-> ItemMs(plan[1], wav),
         current_ms      |-> 0,
         chapter_idx     |-> ci,
         chapter_markers |-> Put(EmptyMap, Str(ci), [start_ms |-> 0]),
         failed          |-> FALSE]

\* chapter_markers[key]["end_ms"] = v
SetEnd(markers, key, v) ==
    [markers EXCEPT ![key] = [start_ms |-> @.start_ms, end_ms |-> v]]

\* the chapter switch taking the cursor itself as the boundary
AdvanceChapterAtCursor(st, item) ==
    IF IsAnnouncement(item, st.chapter_idx + 1)
    THEN LET b == st.current_ms
         IN  [st EXCEPT !.chapter_idx = @ + 1,
                        !.chapter_markers =
                            Put(SetEnd(@, Str(st.chapter_idx), b),
                                Str(st.chapter_idx + 1), [start_ms |-> b])]
    ELSE st

\* the chapter switch at an announcement of chapter_idx + 1
AdvanceChapter(st, item) ==
    IF IsAnnouncement(item, st.chapter_idx + 1)
    THEN LET b == Max(st.current_ms - PauseMs, 0)
         IN  [st EXCEPT !.chapter_idx = @ + 1,
                        !.chapter_markers =
                            Put(SetEnd(@, Str(st.chapter_idx), b),
                                Str(st.chapter_idx + 1), [start_ms |-> b])]
    ELSE st

\* if idx+2 == len(files_to_stitch) and str(chapter_idx) in chapter_markers
CloseLast(st, i, n) ==
    IF i = n /\ Str(st.chapter_idx) \in DOMAIN st.chapter_markers
    THEN [st EXCEPT !.chapter_markers = SetEnd(@, Str(st.chapter_idx), st.current_ms)]
    ELSE st

\* one iteration of the loop, on the i-th item of the plan (i >= 2)
LoopStep(plan, wav, fade, i, st) ==
    LET item == plan[i]
        s1   == AdvanceChapter(st, item)
        len  == AppendLen(s1.combined, ItemMs(item, wav),
                          IF item = PAUSE THEN 0 ELSE fade)
    IN  IF len < 0 THEN [s1 EXCEPT !.failed = TRUE]
        ELSE CloseLast([s1 EXCEPT !.combined = len, !.current_ms = len],
                       i, Len(plan))

RECURSIVE Loop(_, _, _, _, _)
\* for idx, wav_file in enumerate(files_to_stitch[start_idx:])
Loop(plan, wav, fade, i, st) ==
    IF i > Len(plan) \/ st.failed THEN st
    ELSE Loop(plan, wav, fade, i + 1, LoopStep(plan, wav, fade, i, st))

\* Assemble without the empty-plan check, joining onto an empty segment
AssembleUnchecked(fs, wav, fade, cc) ==
    LET plan == FilesToStitch(fs, cc)
    IN  IF plan = <<>>
        THEN [status |-> "ok", combined |-> 0, chapter_markers |-> EmptyMap]
        ELSE LET st == Loop(plan, wav, fade, 2, LoopInit(plan, wav))
             IN  IF st.failed
                 THEN [status |-> "crossfade_error", combined |-> 0,
                       chapter_markers |-> EmptyMap]
                 ELSE [status |-> "ok", combined |-> st.combined,
                       chapter_markers |-> st.chapter_markers]

\* stitch_audio up to the export: the plan, then the join loop
Assemble(fs, wav, fade, cc) ==
    LET plan == FilesToStitch(fs, cc)
    IN  IF plan = <<>>
        THEN [status |-> "empty_plan", combined |-> 0, chapter_markers |-> EmptyMap]
        ELSE LET st == Loop(plan, wav, fade, 2, LoopInit(plan, wav))
             IN  IF st.failed
                 THEN [status |-> "crossfade_error", combined |-> 0,
                       chapter_markers |-> EmptyMap]
                 ELSE [status |-> "ok", combined |-> st.combined,
                       chapter_markers |-> st.chapter_markers]

\* data.get("chapter_count", 0)
ChapterCountOf(d) == IF "chapter_count" \in DOMAIN d THEN d["chapter_count"] ELSE 0

\* data rebuilt from the markers alone
WithMarkersOverwrite(d, markers) == Put(EmptyMap, "chapter_markers", markers)

\* data["chapter_markers"] = chapter_markers
WithMarkers(d, markers) == Put(d, "chapter_markers", markers)

\* stitch_audio, the whole call
StitchAudio ==
    /\ IF doc_state # "json"
       THEN /\ ret' = [op |-> "stitch_audio", status |-> "no_document"]
            /\ UNCHANGED <<doc, output_wav>>
       ELSE LET r == Assemble(files, wav_ms, fade_duration, ChapterCountOf(doc))
            IN  /\ ret' = [op |-> "stitch_audio", status |-> r.status]
                /\ IF r.status = "ok"
                   THEN /\ output_wav' = <<r.combined>>
                        /\ doc' = WithMarkers(doc, r.chapter_markers)
                   ELSE UNCHANGED <<doc, output_wav>>
    /\ UNCHANGED <<tts_calls, render_count, input_txt, max_chunk_size, doc_state, files, wav_ms,
                   fade_duration, pc, local, overlap>>

---------------------------------------------------------------------------
(* Text (Python str methods used by src/textchunk/chunker.py) *)

\* the characters str.strip() removes
Whitespace == {" ", "\n", "\t", "\r"}

RECURSIVE LStrip(_)
LStrip(s) == IF s # <<>> /\ s[1] \in Whitespace THEN LStrip(Tail(s)) ELSE s

RECURSIVE RStrip(_)
RStrip(s) ==
    IF s # <<>> /\ s[Len(s)] \in Whitespace
    THEN RStrip(SubSeq(s, 1, Len(s) - 1))
    ELSE s

\* s.strip()
Strip(s) == RStrip(LStrip(s))

\* the position of the first c in s, 0 if there is none
IndexOf(s, c) ==
    IF \E i \in 1..Len(s) : s[i] = c
    THEN CHOOSE i \in 1..Len(s) : s[i] = c /\ \A j \in 1..(i - 1) : s[j] # c
    ELSE 0

RECURSIVE Split(_, _)
\* s.split(c), c one character: the parts between the c's, empty ones kept
Split(s, c) ==
    LET k == IndexOf(s, c)
    IN  IF k = 0 THEN <<s>>
        ELSE <<SubSeq(s, 1, k - 1)>> \o Split(SubSeq(s, k + 1, Len(s)), c)

RECURSIVE MarkBoundary(_, _)
\* s.replace(p + ' ', p + '|'), p one character, scanning left to right
MarkBoundary(s, p) ==
    IF Len(s) < 2 THEN s
    ELSE IF s[1] = p /\ s[2] = " "
         THEN <<p, "|">> \o MarkBoundary(SubSeq(s, 3, Len(s)), p)
         ELSE <<s[1]>> \o MarkBoundary(Tail(s), p)

RECURSIVE FileLines(_)
\* for line in f: the lines of a text file, each with its line break
FileLines(s) ==
    LET k == IndexOf(s, "\n")
    IN  IF s = <<>> THEN <<>>
        ELSE IF k = 0 THEN <<s>>
        ELSE <<SubSeq(s, 1, k)>> \o FileLines(SubSeq(s, k + 1, Len(s)))

RECURSIVE Stripped(_)
\* [x.strip() for x in xs]
Stripped(xs) == IF xs = <<>> THEN <<>> ELSE <<Strip(Head(xs))>> \o Stripped(Tail(xs))

\* int(s) for the chapter keys of the model
IntOf(s) == CHOOSE n \in 0..9 : Str(n) = s

---------------------------------------------------------------------------
(* chunk_text (src/textchunk/chunker.py) *)

\* chapter_lines = [line.strip() for line in f if line.strip()]
ChapterLines(content) ==
    SelectSeq(Stripped(FileLines(content)), LAMBDA l : l # <<>>)

\* line.replace('! ', '!|').replace('? ', '?|').replace('. ', '.|').split('|')
Parts(line) ==
    Split(MarkBoundary(MarkBoundary(MarkBoundary(line, "!"), "?"), "."), "|")

\* the sentences of one line: every non-empty part, stripped
LineSentences(line) ==
    Stripped(SelectSeq(Parts(line), LAMBDA part : part # <<>>))

RECURSIVE SentencesOfLines(_)
\* for line in lines: line = line.strip(); skip if empty; else its sentences
SentencesOfLines(lines) ==
    IF lines = <<>> THEN <<>>
    ELSE (IF Strip(Head(lines)) = <<>> THEN <<>>
          ELSE LineSentences(Strip(Head(lines))))
         \o SentencesOfLines(Tail(lines))

\* sentences, for one chapter_text
Sentences(chapter_text) == SentencesOfLines(Split(chapter_text, "\n"))

\* PackStep comparing the current chunk alone against the limit
PackStepChunkOnly(st, sentence, max) ==
    IF Len(st.current_chunk) > max /\ st.current_chunk # <<>>
    THEN [chapter_chunks |-> Append(st.chapter_chunks, Strip(st.current_chunk)),
          current_chunk  |-> sentence]
    ELSE [chapter_chunks |-> st.chapter_chunks,
          current_chunk  |-> (IF st.current_chunk # <<>>
                              THEN st.current_chunk \o <<" ">>
                              ELSE st.current_chunk) \o sentence]

\* the body of "for sentence in sentences"
PackStep(st, sentence, max) ==
    IF Len(st.current_chunk) + Len(sentence) > max /\ st.current_chunk # <<>>
    THEN [chapter_chunks |-> Append(st.chapter_chunks, Strip(st.current_chunk)),
          current_chunk  |-> sentence]
    ELSE [chapter_chunks |-> st.chapter_chunks,
          current_chunk  |-> (IF st.current_chunk # <<>>
                              THEN st.current_chunk \o <<" ">>
                              ELSE st.current_chunk) \o sentence]

RECURSIVE PackLoop(_, _, _)
PackLoop(sentences, st, max) ==
    IF sentences = <<>> THEN st
    ELSE PackLoop(Tail(sentences), PackStep(st, Head(sentences), max), max)

\* chapter_chunks: the loop, then the flush of a non-empty current_chunk
Pack(sentences, max) ==
    LET st == PackLoop(sentences,
                       [chapter_chunks |-> <<>>, current_chunk |-> <<>>], max)
    IN  IF st.current_chunk # <<>>
        THEN Append(st.chapter_chunks, Strip(st.current_chunk))
        ELSE st.chapter_chunks

\* chunks_by_chapter: str(idx) -> chapter_chunks, idx counting from 1
ChunksByChapter(content, max) ==
    LET lines == ChapterLines(content)
    IN  [k \in {Str(i) : i \in 1..Len(lines)} |->
            Pack(Sentences(lines[IntOf(k)]), max)]

\* chunk_data built without loading the existing document
WithChunksOverwrite(state, d, cbc) == Put(EmptyMap, "chunks", cbc)

\* chunk_data: the loaded document with its chunks replaced, or a new one
WithChunks(state, d, cbc) ==
    IF state = "json" THEN Put(d, "chunks", cbc) ELSE Put(EmptyMap, "chunks", cbc)

\* chunk_text, the whole call
ChunkText ==
    /\ doc' = WithChunks(doc_state, doc, ChunksByChapter(input_txt, max_chunk_size))
    /\ doc_state' = "json"
    /\ ret' = [op |-> "chunk_text", status |-> "ok"]
    /\ UNCHANGED <<tts_calls, render_count, input_txt, max_chunk_size, files, wav_ms, fade_duration,
                   output_wav, pc, local, overlap>>

---------------------------------------------------------------------------
(* generate_audio (src/tts/generate.py) *)

\* the items of a sequence
Range(q) == {q[i] : i \in 1..Len(q)}

\* data.get(f, "")
TextField(d, f) == IF f \in DOMAIN d THEN d[f] ELSE ""

RECURSIVE ChunkUnitsOf(_, _)
\* the chunk files of the chunks map, chapter after chapter in the order
\* of the keys cs, the chunks of a chapter numbered from 0
ChunkUnitsOf(chunks, cs) ==
    IF cs = <<>> THEN <<>>
    ELSE [i \in 1..Len(chunks[Str(Head(cs))]) |-> ChunkUnit(Head(cs), i - 1)]
         \o ChunkUnitsOf(chunks, Tail(cs))

\* the units generate_audio goes through, in its order: title and author
\* if the document names them, chapter_count and the announcements if it
\* has a chapter_count, then the chunks
WantedUnits(d) ==
    (IF TextField(d, "title") # "" THEN <<MetaUnit("title")>> ELSE <<>>)
    \o (IF TextField(d, "author") # "" THEN <<MetaUnit("author")>> ELSE <<>>)
    \o (IF "chapter_count" \in DOMAIN d
        THEN <<MetaUnit("chapter_count")>>
             \o [i \in 1..d["chapter_count"] |-> Announce(i)]
        ELSE <<>>)
    \o ChunkUnitsOf(d["chunks"], SortedSeq({IntOf(k) : k \in DOMAIN d["chunks"]}))

\* tts_backend.tts_to_file for unit u: the fail_at-th call of a run raises,
\* with or without an output file left behind; any other call writes it
TtsToFile(st, u, fail_at, leaves_file) ==
    LET call == [unit    |-> u,
                 existed |-> u \in st.files,
                 ok      |-> Len(st.calls) + 1 # fail_at]
    IN  [files  |-> IF call.ok \/ leaves_file THEN st.files \cup {u} ELSE st.files,
         calls  |-> Append(st.calls, call),
         failed |-> ~call.ok]

\* a unit rendered whether or not its file exists
RenderUnitAlways(st, u, fail_at, leaves_file) ==
    IF st.failed THEN st
    ELSE TtsToFile(st, u, fail_at, leaves_file)

\* if not file.exists(): tts_to_file(...), in a run not yet aborted
RenderUnit(st, u, fail_at, leaves_file) ==
    IF st.failed \/ u \in st.files THEN st
    ELSE TtsToFile(st, u, fail_at, leaves_file)

RECURSIVE RenderAll(_, _, _, _)
\* the units gone through in order
RenderAll(units, st, fail_at, leaves_file) ==
    IF units = <<>> THEN st
    ELSE RenderAll(Tail(units), RenderUnit(st, Head(units), fail_at, leaves_file),
                   fail_at, leaves_file)

\* the units a run rendered successfully
RenderedBy(calls) == {calls[i].unit : i \in {j \in 1..Len(calls) : calls[j].ok}}

\* the number of successful renders of unit u among the calls
Renders(calls, u) == Cardinality({i \in 1..Len(calls) : calls[i].ok /\ calls[i].unit = u})

\* the successful renders so far
Rendered(rc, u) == IF u \in DOMAIN rc THEN rc[u] ELSE 0

\* generate_audio, the whole call
GenerateAudio ==
    /\ IF doc_state # "json" \/ "chunks" \notin DOMAIN doc
       THEN /\ ret' = [op |-> "generate_audio",
                       status |-> IF doc_state # "json" THEN "no_document"
                                  ELSE "no_chunks"]
            /\ tts_calls' = <<>>
            /\ UNCHANGED <<files, wav_ms, render_count>>
       ELSE \E fail_at \in 1..(Cardinality(Range(WantedUnits(doc)) \ files) + 1),
               leaves_file \in BOOLEAN :
               LET st == RenderAll(WantedUnits(doc),
                                   [files |-> files, calls |-> <<>>, failed |-> FALSE],
                                   fail_at, leaves_file)
               IN  /\ files' = st.files
                   /\ wav_ms' = [f \in st.files |->
                                    IF f \in files THEN wav_ms[f]
                                    ELSE IF f \in RenderedBy(st.calls) THEN 300
                                    ELSE 40]
                   /\ tts_calls' = st.calls
                   /\ render_count' =
                         [u \in DOMAIN render_count \cup RenderedBy(st.calls) |->
                             Rendered(render_count, u) + Renders(st.calls, u)]
                   /\ ret' = [op |-> "generate_audio",
                              status |-> IF st.failed THEN "renderer_failed" ELSE "ok"]
    /\ UNCHANGED <<input_txt, max_chunk_size, doc_state, doc, fade_duration,
                   output_wav, pc, local, overlap>>

---------------------------------------------------------------------------
(* The two stages as processes on the same document.  Each reads the       *)
(* document and later rewrites it whole; nothing orders the two.  A write  *)
(* (open, json.dump, close) is one step.                                   *)

Other(p) == IF p = "chunk" THEN "stitch" ELSE "chunk"
Running(p) == pc[p] \notin {"idle", "done", "failed"}

\* a stage starts: it overlaps the other one if that one is under way
Start(p, next) ==
    /\ pc[p] = "idle"
    /\ pc' = [pc EXCEPT ![p] = next]
    /\ overlap' = (overlap \/ Running(Other(p)))

Goto(p, from, next) ==
    /\ pc[p] = from
    /\ pc' = [pc EXCEPT ![p] = next]
    /\ UNCHANGED overlap

\* chunk_text, lines 9-47: chunks_by_chapter, then chunk_data from the document
ChunkReadDoc ==
    /\ Start("chunk", "write")
    /\ local' = [local EXCEPT !["chunk"] =
                    [chunk_data |-> WithChunks(doc_state, doc,
                                     ChunksByChapter(input_txt, max_chunk_size))]]
    /\ UNCHANGED <<tts_calls, render_count, input_txt, max_chunk_size, doc_state, doc, files, wav_ms,
                   fade_duration, output_wav, ret>>

\* chunk_text, lines 48-53: the document rewritten from chunk_data
ChunkWriteDoc ==
    /\ Goto("chunk", "write", "done")
    /\ doc' = local["chunk"].chunk_data
    /\ doc_state' = "json"
    /\ UNCHANGED <<tts_calls, render_count, input_txt, max_chunk_size, files, wav_ms, fade_duration,
                   output_wav, ret, local>>

\* stitch_audio, lines 26-28: chapter_count read from the document
StitchLoad ==
    /\ Start("stitch", IF doc_state = "json" THEN "assemble" ELSE "failed")
    /\ local' = [local EXCEPT !["stitch"] =
                    IF doc_state = "json"
                    THEN [chapter_count |-> ChapterCountOf(doc)]
                    ELSE @]
    /\ UNCHANGED <<tts_calls, render_count, input_txt, max_chunk_size, doc_state, doc, files, wav_ms,
                   fade_duration, output_wav, ret>>

\* stitch_audio, lines 30-101: the plan, the join loop, the export
StitchExport ==
    LET r == Assemble(files, wav_ms, fade_duration, local["stitch"].chapter_count)
    IN  /\ Goto("stitch", "assemble", IF r.status = "ok" THEN "save" ELSE "failed")
        /\ IF r.status = "ok"
           THEN /\ output_wav' = <<r.combined>>
                /\ local' = [local EXCEPT !["stitch"] =
                                [chapter_count   |-> @.chapter_count,
                                 chapter_markers |-> r.chapter_markers]]
           ELSE UNCHANGED <<output_wav, local>>
        /\ UNCHANGED <<tts_calls, render_count, input_txt, max_chunk_size, doc_state, doc, files, wav_ms,
                       fade_duration, ret>>

\* stitch_audio, lines 104-105: the document loaded again
StitchReadDoc ==
    /\ Goto("stitch", "save", "dump")
    /\ local' = [local EXCEPT !["stitch"] =
                    [chapter_count   |-> @.chapter_count,
                     chapter_markers |-> @.chapter_markers,
                     data            |-> doc]]
    /\ UNCHANGED <<tts_calls, render_count, input_txt, max_chunk_size, doc_state, doc, files, wav_ms,
                   fade_duration, output_wav, ret>>

\* stitch_audio, lines 106-111: the document rewritten with the markers
StitchWriteDoc ==
    /\ Goto("stitch", "dump", "done")
    /\ doc' = WithMarkers(local["stitch"].data, local["stitch"].chapter_markers)
    /\ UNCHANGED <<tts_calls, render_count, input_txt, max_chunk_size, doc_state, files, wav_ms,
                   fade_duration, output_wav, ret, local>>

---------------------------------------------------------------------------
(* Inputs *)

\* every unit file a directory of the model may hold
AllUnits ==
    {MetaUnit("title"), MetaUnit("author"), MetaUnit("chapter_count")}
    \cup {Announce(c) : c \in 1..MaxChapters}
    \cup {ChunkUnit(c, i) : c \in 1..MaxChapters, i \in 0..(MaxChunks - 1)}

\* durations of rendered units, around the crossfade and the pause
Durations == {40, 300}

\* the stages not running as processes
Idle == [p \in {"chunk", "stitch"} |-> "idle"]
NoLocal == [p \in {"chunk", "stitch"} |-> EmptyMap]
NoCall == [op |-> "none", status |-> "none"]

\* a document as the extraction leaves it
ExtractedDoc(cc) == [title |-> "T", author |-> "A", chapter_count |-> cc]

\* the unit files of chapters 1..cc, with the three metadata units
UnitsUpTo(cc) == {u \in AllUnits : u.ch <= cc}

\* directories for a document counting cc chapters: any of the units of its
\* chapters, alone or beside the units of chapters the document does not count
Directories(cc) ==
    {S \cup T : S \in SUBSET UnitsUpTo(cc), T \in {{}, AllUnits \ UnitsUpTo(cc)}}

\* the variables no atomic stage call reads or writes
NoProcesses ==
    /\ pc = Idle
    /\ local = NoLocal
    /\ overlap = FALSE

\* the renderer has not been called
NoRenders ==
    /\ tts_calls = <<>>
    /\ render_count = EmptyMap

InitStitch ==
    /\ input_txt = <<>>
    /\ max_chunk_size = 1
    /\ doc_state = "json"
    /\ \E cc \in 0..MaxChapters :
          /\ doc = ExtractedDoc(cc)
          /\ files \in Directories(cc)
    /\ \E dm \in Durations, dc \in Durations :
          wav_ms = [f \in files |-> IF f.kind = "chunk" THEN dc ELSE dm]
    /\ fade_duration \in {0, DefaultFade}
    /\ output_wav = <<>>
    /\ ret = NoCall
    /\ NoProcesses
    /\ NoRenders

NextStitch == StitchAudio

SpecStitch == InitStitch /\ [][NextStitch]_vars

\* the directories of InitStitch with every unit 300 ms long and the
\* default crossfade: the plan reads the names of the files only
InitPlan ==
    /\ input_txt = <<>>
    /\ max_chunk_size = 1
    /\ doc_state = "json"
    /\ \E cc \in 0..MaxChapters :
          /\ doc = ExtractedDoc(cc)
          /\ files \in Directories(cc)
    /\ wav_ms = [f \in files |-> 300]
    /\ fade_duration = DefaultFade
    /\ output_wav = <<>>
    /\ ret = NoCall
    /\ NoProcesses
    /\ NoRenders

NextPlan == StitchAudio

SpecPlan == InitPlan /\ [][NextPlan]_vars

\* the characters of the enumerated texts
Alphabet == {"a", ".", " ", "|", "\n"}

\* every text of at most n characters
Texts(n) == UNION {[1..k -> Alphabet] : k \in 0..n}

\* "Hello world. This is chapter one! Is it?\n"
ScenarioA ==
    <<"H", "e", "l", "l", "o", " ", "w", "o", "r", "l", "d", ".", " ", "T",
      "h", "i", "s", " ", "i", "s", " ", "c", "h", "a", "p", "t", "e", "r",
      " ", "o", "n", "e", "!", " ", "I", "s", " ", "i", "t", "?", "\n">>

InitChunk ==
    /\ \/ /\ input_txt \in Texts(MaxLen)
          /\ max_chunk_size \in 1..MaxChunkSize
       \/ /\ input_txt = ScenarioA
          /\ max_chunk_size = 20
    /\ \/ /\ doc_state = "absent"
          /\ doc = EmptyMap
       \/ /\ doc_state = "json"
          /\ doc = ExtractedDoc(1)
    /\ files = {}
    /\ wav_ms = EmptyMap
    /\ fade_duration = DefaultFade
    /\ output_wav = <<>>
    /\ ret = NoCall
    /\ NoProcesses
    /\ NoRenders

NextChunk == ChunkText

SpecChunk == InitChunk /\ [][NextChunk]_vars

\* chunks and markers left in the document by an earlier run on a book
\* of one more chapter
OldChunks == [k \in {Str(i) : i \in 1..(MaxChapters + 1)} |-> <<<<"o", "l", "d">>>>]
OldMarkers ==
    [k \in {Str(i) : i \in 0..(MaxChapters + 1)} |->
        [start_ms |-> 5000 * IntOf(k), end_ms |-> 5000 * (IntOf(k) + 1)]]

\* the documents a stage may find: fresh from the extraction, with or
\* without a cover, with or without the fields of an earlier run
Documents ==
    {ExtractedDoc(cc) @@ cover @@ earlier :
        cc \in 0..MaxChapters,
        cover \in {EmptyMap, [cover_file |-> "data/cover.jpg"]},
        earlier \in {EmptyMap, [chunks |-> OldChunks, chapter_markers |-> OldMarkers]}}

\* "a", "a. a", "a" and "a" on two lines
SmallTexts == {<<"a">>, <<"a", ".", " ", "a">>, <<"a", "\n", "a">>}

\* the title, and one announcement and one chunk per chapter
SmallUnits ==
    {MetaUnit("title")}
    \cup {Announce(c) : c \in 1..MaxChapters}
    \cup {ChunkUnit(c, 0) : c \in 1..MaxChapters}

InitPipeline ==
    /\ input_txt \in SmallTexts
    /\ max_chunk_size \in {1, MaxChunkSize}
    /\ \/ /\ doc_state = "absent"
          /\ doc = EmptyMap
       \/ /\ doc_state = "json"
          /\ doc \in Documents
    /\ files \in SUBSET SmallUnits
    /\ wav_ms = [f \in files |-> 300]
    /\ fade_duration = DefaultFade
    /\ output_wav = <<>>
    /\ ret = NoCall
    /\ NoProcesses
    /\ NoRenders

\* the stage commands, each a whole call, in any order
NextPipeline == ChunkText \/ StitchAudio

SpecPipeline == InitPipeline /\ [][NextPipeline]_vars

\* one chapter of two chunks ("a.", "a"), and two chapters of one chunk each
BookInputs == {<<<<"a", ".", " ", "a">>, 1>>, <<<<"a", "\n", "a">>, MaxChunkSize>>}

\* a book through the stages: the text and, for an EPUB, the document of
\* the extraction; for a PDF no document; an empty output directory
InitBook ==
    /\ \E b \in BookInputs :
          /\ input_txt = b[1]
          /\ max_chunk_size = b[2]
    /\ \/ /\ doc_state = "absent"
          /\ doc = EmptyMap
       \/ /\ doc_state = "json"
          /\ \E cc \in 0..MaxChapters : doc = ExtractedDoc(cc)
    /\ files = {}
    /\ wav_ms = EmptyMap
    /\ fade_duration = DefaultFade
    /\ output_wav = <<>>
    /\ ret = NoCall
    /\ NoProcesses
    /\ NoRenders

\* the stages of process_book, each a whole call, run and re-run in any order
NextBook == ChunkText \/ GenerateAudio \/ StitchAudio

SpecBook == InitBook /\ [][NextBook]_vars

InitConcurrent ==
    /\ input_txt \in SmallTexts
    /\ max_chunk_size = MaxChunkSize
    /\ \/ /\ doc_state = "absent"
          /\ doc = EmptyMap
       \/ /\ doc_state = "json"
          /\ \E cc \in 0..MaxChapters : doc = ExtractedDoc(cc)
    /\ files \in SUBSET SmallUnits
    /\ wav_ms = [f \in files |-> 300]
    /\ fade_duration = DefaultFade
    /\ output_wav = <<>>
    /\ ret = NoCall
    /\ pc = Idle
    /\ local = NoLocal
    /\ overlap = FALSE
    /\ NoRenders

NextConcurrent ==
    \/ ChunkReadDoc
    \/ ChunkWriteDoc
    \/ StitchLoad
    \/ StitchExport
    \/ StitchReadDoc
    \/ StitchWriteDoc

SpecConcurrent == InitConcurrent /\ [][NextConcurrent]_vars

---------------------------------------------------------------------------
(* Properties of stitch_audio, under SpecStitch and SpecPlan *)

StitchOk == ret = [op |-> "stitch_audio", status |-> "ok"]

\* the plan of the call that has just returned
PlanNow == FilesToStitch(files, ChapterCountOf(doc))

\* the chapter numbers recorded in a chapter_markers object
MarkerChapters(m) == {k \in 0..9 : Str(k) \in DOMAIN m}

\* the chapter open when the plan ends: the last one opened
OpenChapter(m) == CHOOSE k \in MarkerChapters(m) : \A j \in MarkerChapters(m) : j <= k

\* C1: when nothing precedes chapter 1's announcement in the timeline (no
\* title, author or chapter_count unit, and chapter_1.wav exists), the
\* persisted chapter_markers has no marker for index 0.
C1_NoIntroMarker ==
    (/\ StitchOk
     /\ MetaItems(files) = <<>>
     /\ ChapterCountOf(doc) >= 1
     /\ Announce(1) \in files)
    => "0" \notin DOMAIN doc["chapter_markers"]

\* C2: after every successful run, on any non-empty plan, the marker of the
\* chapter open at the end of the plan has end_ms equal to the duration of
\* the exported waveform.
C2_LastMarkerClosed ==
    StitchOk =>
        LET m == doc["chapter_markers"]
            k == Str(OpenChapter(m))
        IN  /\ "end_ms" \in DOMAIN m[k]
            /\ m[k].end_ms = output_wav[1]

\* C3: after every successful run the recorded markers are contiguous and
\* non-overlapping: the keys are a consecutive range of integers, each
\* chapter starts where the previous one ends, and no chapter ends before
\* it starts.
C3_MarkersContiguous ==
    StitchOk =>
        LET m  == doc["chapter_markers"]
            ks == MarkerChapters(m)
        IN  /\ \E lo \in ks, hi \in ks : ks = lo..hi
            /\ \A k \in ks :
                  /\ "end_ms" \in DOMAIN m[Str(k)]
                  /\ m[Str(k)].end_ms >= m[Str(k)].start_ms
            /\ \A k \in ks : (k - 1) \in ks =>
                  /\ "end_ms" \in DOMAIN m[Str(k - 1)]
                  /\ m[Str(k)].start_ms = m[Str(k - 1)].end_ms

\* C7: with no unit file at all, whatever chapter_count is, stitch_audio
\* fails with the empty-plan error, exports no waveform and leaves the
\* document as it was.
C7_EmptyDirectoryFails ==
    [][(StitchAudio /\ doc_state = "json" /\ files = {})
         => /\ ret'.status = "empty_plan"
            /\ output_wav' = output_wav
            /\ doc' = doc]_vars

C7_Witness ==
    /\ files = {}
    /\ ChapterCountOf(doc) >= 1
    /\ ret = [op |-> "stitch_audio", status |-> "empty_plan"]
    /\ output_wav = <<>>
    /\ "chapter_markers" \notin DOMAIN doc

\* the units a plan for chapter_count cc draws from: the metadata units
\* and the units of chapters 1..cc that exist
PlannedUnits(fs, cc) == {u \in fs : u.ch <= cc}

\* the place of a unit's kind in the canonical order
KindRank(u) ==
    CASE u.kind = "title"         -> 0
      [] u.kind = "author"        -> 1
      [] u.kind = "chapter_count" -> 2
      [] u.kind = "chapter"       -> 3
      [] u.kind = "chunk"         -> 4
      [] OTHER                    -> 5

\* canonical order: metadata units, then chapter by chapter the
\* announcement and the chunks by index
Before(u, v) ==
    \/ u.ch < v.ch
    \/ /\ u.ch = v.ch
       /\ \/ KindRank(u) < KindRank(v)
          \/ KindRank(u) = KindRank(v) /\ u.idx < v.idx

\* the number of positions of a plan holding x
Occurrences(plan, x) == Cardinality({i \in 1..Len(plan) : plan[i] = x})

\* the plan holds exactly the planned units, once each, in canonical order
\* with no pause among the metadata units; every PAUSE is next to an
\* announcement, none is last
PlanCanonical(plan, fs, cc) ==
    /\ \A i \in 1..Len(plan) : plan[i] # PAUSE => plan[i] \in PlannedUnits(fs, cc)
    /\ \A u \in PlannedUnits(fs, cc) : Occurrences(plan, u) = 1
    /\ \A i \in 1..Len(plan), j \in 1..Len(plan) :
          (i < j /\ plan[i] # PAUSE /\ plan[j] # PAUSE) => Before(plan[i], plan[j])
    /\ \A i \in 1..Len(plan), j \in 1..Len(plan) :
          (i < j /\ KindRank(plan[j]) <= 2) => plan[i] # PAUSE
    /\ \A i \in 1..Len(plan) :
          plan[i] = PAUSE =>
              \/ i > 1 /\ plan[i - 1].kind = "chapter"
              \/ i < Len(plan) /\ plan[i + 1].kind = "chapter"
    /\ plan # <<>> => plan[Len(plan)] # PAUSE

\* every announcement has a PAUSE right before it and a PAUSE right after it
AnnouncementsBetweenPauses(plan) ==
    \A i \in 1..Len(plan) :
        plan[i].kind = "chapter" =>
            /\ i > 1 /\ plan[i - 1] = PAUSE
            /\ i < Len(plan) /\ plan[i + 1] = PAUSE

\* every announcement has a PAUSE right before it, and a PAUSE right after
\* it unless it is the last item of the plan
AnnouncementsPaused(plan) ==
    \A i \in 1..Len(plan) :
        plan[i].kind = "chapter" =>
            /\ i > 1 /\ plan[i - 1] = PAUSE
            /\ i < Len(plan) => plan[i + 1] = PAUSE

\* building the plan raises nothing but the error of the empty plan
OnlyEmptyPlanFails == (ret.status = "empty_plan") <=> (PlanNow = <<>>)

\* C12, as stated: the plan holds exactly the existing units of chapters
\* 1..chapter_count and the existing title, author and chapter_count units,
\* in canonical order; every announcement is immediately preceded and
\* immediately followed by a PAUSE; a PAUSE appears only next to an
\* announcement; the plan never ends with a PAUSE; missing units raise
\* no error.
C12_PlanCanonicalOrder ==
    ret.op = "stitch_audio" =>
        /\ PlanCanonical(PlanNow, files, ChapterCountOf(doc))
        /\ AnnouncementsBetweenPauses(PlanNow)
        /\ OnlyEmptyPlanFails

\* C12, amended: as above, but an announcement that is the last item of the
\* plan (its chapter and all later ones have no chunk and no announcement)
\* has no PAUSE after it, the trailing PAUSE being stripped.
C12_PlanCanonicalOrderAmended ==
    ret.op = "stitch_audio" =>
        /\ PlanCanonical(PlanNow, files, ChapterCountOf(doc))
        /\ AnnouncementsPaused(PlanNow)
        /\ OnlyEmptyPlanFails

\* stitch_audio has run on a plan of three or more items that ends with an
\* announcement, with the announcement of a counted chapter missing
C12_Witness ==
    /\ StitchOk
    /\ Len(PlanNow) >= 3
    /\ PlanNow[Len(PlanNow)].kind = "chapter"
    /\ \E c \in 1..ChapterCountOf(doc) : Announce(c) \notin files
    /\ \E i \in 1..Len(PlanNow) : PlanNow[i].kind = "chunk"

\* the position of an item in a plan
PosOf(plan, item) == CHOOSE i \in 1..Len(plan) : plan[i] = item

RECURSIVE TimelineMs(_, _, _, _)
\* the duration of the timeline once the first j items of the plan are joined
TimelineMs(plan, wav, fade, j) ==
    IF j = 0 THEN 0
    ELSE IF j = 1 THEN ItemMs(plan[1], wav)
    ELSE AppendLen(TimelineMs(plan, wav, fade, j - 1), ItemMs(plan[j], wav),
                   IF plan[j] = PAUSE THEN 0 ELSE fade)

\* C14: whenever the run advanced from chapter k to chapter k+1, end_ms of
\* k and start_ms of k+1 both equal the duration of the timeline just before
\* the PAUSE preceding chapter k+1's announcement was appended, also when
\* that PAUSE is the first item of the plan; the chapter index advances by
\* exactly 1, so the recorded keys are consecutive.
C14_BoundaryBeforePause ==
    StitchOk =>
        LET m    == doc["chapter_markers"]
            ks   == MarkerChapters(m)
            plan == PlanNow
        IN  /\ \E lo \in ks, hi \in ks : ks = lo..hi
            /\ \A k \in ks : (k + 1) \in ks =>
                  /\ Occurrences(plan, Announce(k + 1)) = 1
                  /\ LET i == PosOf(plan, Announce(k + 1))
                         b == TimelineMs(plan, wav_ms, fade_duration, i - 2)
                     IN  /\ i >= 2
                         /\ plan[i - 1] = PAUSE
                         /\ "end_ms" \in DOMAIN m[Str(k)]
                         /\ m[Str(k)].end_ms = b
                         /\ m[Str(k + 1)].start_ms = b

\* a run advanced twice: into chapter 1 at a PAUSE that is the first item
\* of the plan, and into chapter 2 at a boundary later in the timeline
C14_Witness ==
    /\ StitchOk
    /\ PlanNow[1] = PAUSE
    /\ {"1", "2"} \subseteq DOMAIN doc["chapter_markers"]
    /\ doc["chapter_markers"]["1"].start_ms = 0
    /\ doc["chapter_markers"]["2"].start_ms > PauseMs

\* C15: after a successful stitch_audio every chapter whose announcement is
\* in the plan has a marker, even when an earlier chapter's announcement is
\* missing.
C15_AnnouncedChaptersMarked ==
    StitchOk =>
        \A c \in 1..ChapterCountOf(doc) :
            Announce(c) \in files => Str(c) \in DOMAIN doc["chapter_markers"]

---------------------------------------------------------------------------
(* Properties of chunk_text, under SpecChunk *)

ChunkOk == ret = [op |-> "chunk_text", status |-> "ok"]

\* the chapters chunk_text numbered in the call that has just returned
LinesNow == ChapterLines(input_txt)

SentenceEnd == {".", "!", "?"}

RECURSIVE BoundarySplit(_)
\* a line cut at every '. ', '! ' and '? ' and nowhere else, the mark kept
\* at the end of the fragment before the cut
BoundarySplit(s) ==
    IF \E i \in 1..(Len(s) - 1) : s[i] \in SentenceEnd /\ s[i + 1] = " "
    THEN LET k == CHOOSE i \in 1..(Len(s) - 1) :
                    /\ s[i] \in SentenceEnd /\ s[i + 1] = " "
                    /\ \A j \in 1..(i - 1) : ~(s[j] \in SentenceEnd /\ s[j + 1] = " ")
         IN  <<SubSeq(s, 1, k)>> \o BoundarySplit(SubSeq(s, k + 2, Len(s)))
    ELSE <<s>>

\* the sentences of a chapter as the contract defines them: fragments that
\* end only at '. ', '! ', '? ' or a line break, empty ones dropped
ContractSentences(chapter_text) ==
    LET RECURSIVE OfLines(_)
        OfLines(ls) ==
            IF ls = <<>> THEN <<>>
            ELSE Stripped(SelectSeq(BoundarySplit(Strip(Head(ls))),
                                    LAMBDA f : Strip(f) # <<>>))
                 \o OfLines(Tail(ls))
    IN  OfLines(Split(chapter_text, "\n"))

RECURSIVE JoinSpace(_)
\* " ".join(xs)
JoinSpace(xs) ==
    IF xs = <<>> THEN <<>>
    ELSE IF Len(xs) = 1 THEN xs[1]
    ELSE xs[1] \o <<" ">> \o JoinSpace(Tail(xs))

RECURSIVE WholeSentences(_, _)
\* the chunks are the sentences, in order, each chunk one or more whole
\* consecutive sentences joined by single spaces
WholeSentences(chunks, sents) ==
    IF chunks = <<>> THEN sents = <<>>
    ELSE \E k \in 1..Len(sents) :
            /\ JoinSpace(SubSeq(sents, 1, k)) = Head(chunks)
            /\ WholeSentences(Tail(chunks), SubSeq(sents, k + 1, Len(sents)))

\* C4: for every chapter text and every positive max_chunk_size no sentence
\* is split across chunks: each chunk is one or more whole sentences joined
\* by single spaces, and the chunks in order reproduce the chapter's
\* sentence sequence exactly.
C4_ChunksAreWholeSentences ==
    ChunkOk =>
        \A i \in 1..Len(LinesNow) :
            WholeSentences(doc["chunks"][Str(i)], ContractSentences(LinesNow[i]))

\* C5: every sentence longer than max_chunk_size is a chunk of its own,
\* unmodified, wherever it occurs: the chunks before it are those of the
\* sentences before it, the chunks after it those of the sentences after it.
C5_OversizedSentenceAlone ==
    ChunkOk =>
        \A c \in 1..Len(LinesNow) :
            LET sents == Sentences(LinesNow[c])
                n     == Len(sents)
            IN  \A i \in 1..n :
                    Len(sents[i]) > max_chunk_size =>
                        doc["chunks"][Str(c)] =
                            Pack(SubSeq(sents, 1, i - 1), max_chunk_size)
                            \o <<sents[i]>>
                            \o Pack(SubSeq(sents, i + 1, n), max_chunk_size)

\* chunk_text has run on a chapter where a sentence within the limit is
\* followed by an oversized one, and every sentence is a chunk of its own
C5_Witness ==
    /\ ChunkOk
    /\ \E c \in 1..Len(LinesNow) :
          LET sents == Sentences(LinesNow[c])
          IN  /\ Len(sents) >= 2
              /\ \E i \in 1..(Len(sents) - 1) :
                    /\ Len(sents[i]) <= max_chunk_size
                    /\ Len(sents[i + 1]) > max_chunk_size
              /\ Len(doc["chunks"][Str(c)]) = Len(sents)

\* C6: an input line with no extractable sentences (a blank line) yields an
\* empty chunk list under its own 1-based line number, without an error, and
\* every other line keeps its own number.
C6_BlankLineKeepsIndex ==
    ret.op = "chunk_text" =>
        /\ ret.status = "ok"
        /\ \A k \in 1..Len(FileLines(input_txt)) :
              /\ Str(k) \in DOMAIN doc["chunks"]
              /\ doc["chunks"][Str(k)] =
                    Pack(Sentences(Strip(FileLines(input_txt)[k])), max_chunk_size)

\* C8: when the input holds no chapter (an empty file, or blank lines only)
\* chunk_text fails and writes nothing into the document.
C8_NoChaptersIsAnError ==
    (ret.op = "chunk_text" /\ LinesNow = <<>>) =>
        /\ ret.status # "ok"
        /\ "chunks" \notin DOMAIN doc

\* the state of the packing loop after the first i sentences
PackAfter(sents, i, max) ==
    PackLoop(SubSeq(sents, 1, i), [chapter_chunks |-> <<>>, current_chunk |-> <<>>], max)

\* the number of the chunk the i-th sentence is packed into
ChunkOf(sents, i, max) == Len(PackAfter(sents, i, max).chapter_chunks) + 1

\* the sentences packed into the j-th chunk
SentencesIn(sents, j, max) == {i \in 1..Len(sents) : ChunkOf(sents, i, max) = j}

\* the first sentence of the j-th chunk
FirstSentence(sents, j, max) ==
    sents[CHOOSE i \in SentencesIn(sents, j, max) :
              \A k \in SentencesIn(sents, j, max) : i <= k]

\* the chunks of Scenario A
ScenarioAChunks ==
    << <<"H", "e", "l", "l", "o", " ", "w", "o", "r", "l", "d", ".">>,
       <<"T", "h", "i", "s", " ", "i", "s", " ", "c", "h", "a", "p", "t", "e",
         "r", " ", "o", "n", "e", "!">>,
       <<"I", "s", " ", "i", "t", "?">> >>

\* C13: sentences are packed greedily in order.  A chunk is closed before a
\* sentence exactly when it is non-empty and its length plus the sentence's
\* exceeds max_chunk_size; so the length of a chunk plus the length of the
\* first sentence of the next chunk exceeds max_chunk_size; the final
\* non-empty chunk is emitted; Scenario A gives its three chunks.
C13_GreedyPacking ==
    ChunkOk =>
        /\ \A c \in 1..Len(LinesNow) :
              LET sents  == Sentences(LinesNow[c])
                  n      == Len(sents)
                  chunks == doc["chunks"][Str(c)]
                  last   == PackAfter(sents, n, max_chunk_size).current_chunk
              IN  /\ \A i \in 1..n :
                        LET cur == PackAfter(sents, i - 1, max_chunk_size).current_chunk
                        IN  (ChunkOf(sents, i, max_chunk_size)
                                = ChunkOf(sents, i - 1, max_chunk_size) + 1)
                            <=> (/\ cur # <<>>
                                 /\ Len(cur) + Len(sents[i]) > max_chunk_size)
                  /\ \A j \in 1..(Len(chunks) - 1) :
                        Len(chunks[j])
                          + Len(FirstSentence(sents, j + 1, max_chunk_size))
                        > max_chunk_size
                  /\ last # <<>> =>
                        /\ chunks # <<>>
                        /\ chunks[Len(chunks)] = Strip(last)
        /\ (input_txt = ScenarioA /\ max_chunk_size = 20) =>
              doc["chunks"] = ("1" :> ScenarioAChunks)

\* C17: only a lone oversized sentence exceeds the limit: a chunk of two or
\* more sentences is at most max_chunk_size long, and every chunk is
\* non-empty and neither starts nor ends with whitespace.
C17_OnlyLoneSentenceExceeds ==
    ChunkOk =>
        \A c \in 1..Len(LinesNow) :
            LET sents  == Sentences(LinesNow[c])
                chunks == doc["chunks"][Str(c)]
            IN  \A j \in 1..Len(chunks) :
                    /\ Cardinality(SentencesIn(sents, j, max_chunk_size)) >= 2
                          => Len(chunks[j]) <= max_chunk_size
                    /\ chunks[j] # <<>>
                    /\ chunks[j] = Strip(chunks[j])

---------------------------------------------------------------------------
(* Properties of the shared document, under SpecPipeline and SpecConcurrent *)

\* every field of d other than f is in e with the same value, and e has no
\* field that is neither in d nor f
OnlyFieldChanged(d, e, f) ==
    /\ DOMAIN e = DOMAIN d \cup {f}
    /\ \A g \in DOMAIN d \ {f} : e[g] = d[g]

\* the chapters a run on these files can record: the preamble, and the
\* counted chapters whose announcement exists
RecordableChapters(fs, cc) == {0} \cup {c \in 1..cc : Announce(c) \in fs}

\* C9: each stage changes only its own field of the document.  chunk_text
\* on an existing document leaves every field but chunks as it was; a
\* successful stitch_audio leaves every field but chapter_markers as it
\* was, and chapter_markers then holds this run's markers only.
C9_OnlyOwnFieldChanges ==
    [][/\ (ChunkText /\ doc_state = "json")
            => /\ OnlyFieldChanged(doc, doc', "chunks")
               /\ doc'["chunks"] = ChunksByChapter(input_txt, max_chunk_size)
       /\ (StitchAudio /\ ret'.status = "ok")
            => /\ OnlyFieldChanged(doc, doc', "chapter_markers")
               /\ \A k \in DOMAIN doc'["chapter_markers"] :
                     /\ IntOf(k) \in RecordableChapters(files, ChapterCountOf(doc))
                     /\ doc'["chapter_markers"][k].start_ms <= output_wav'[1]
      ]_vars

\* chunk_text, then stitch_audio, have run on a document that held a cover
\* and the chunks of an earlier run
C9_Witness ==
    /\ StitchOk
    /\ {"title", "author", "chapter_count", "cover_file", "chunks",
        "chapter_markers"} = DOMAIN doc
    /\ doc["chunks"] = ChunksByChapter(input_txt, max_chunk_size)
    /\ DOMAIN doc["chapter_markers"] = {"0", "1"}

BothDone == pc["chunk"] = "done" /\ pc["stitch"] = "done"

\* the document holds what both stages wrote
BothUpdatesKept ==
    /\ doc_state = "json"
    /\ "chunks" \in DOMAIN doc
    /\ doc["chunks"] = ChunksByChapter(input_txt, max_chunk_size)
    /\ "chapter_markers" \in DOMAIN doc
    /\ doc["chapter_markers"] = local["stitch"].chapter_markers

\* C10: nothing locks the document.  When the two stages have run one after
\* the other, the document holds both updates; when they overlap, both can
\* complete and leave a document without the field one of them wrote.
C10_SequentialKeepsBothUpdates ==
    (BothDone /\ ~overlap) => BothUpdatesKept

\* both stages completed, overlapping, and one field is missing
C10_Witness ==
    /\ BothDone
    /\ overlap
    /\ ("chunks" \notin DOMAIN doc \/ "chapter_markers" \notin DOMAIN doc)

---------------------------------------------------------------------------
(* Properties of generate_audio and of the stages in sequence, under SpecBook *)

\* C11: across any sequence of generate_audio runs, runs aborted by a
\* renderer failure included, the renderer is never called for a unit whose
\* file exists: every call of a run is for a wanted unit still missing, no
\* unit is rendered successfully more than once, a run that completes
\* renders exactly the units that were missing, and a run after a completed
\* run renders nothing.
C11_RenderAtMostOnce ==
    [][GenerateAudio =>
          /\ \A i \in 1..Len(tts_calls') :
                /\ ~tts_calls'[i].existed
                /\ tts_calls'[i].unit \in Range(WantedUnits(doc)) \ files
                /\ \A j \in 1..Len(tts_calls') : i # j => tts_calls'[i].unit # tts_calls'[j].unit
          /\ \A u \in DOMAIN render_count' : render_count'[u] <= 1
          /\ files \subseteq files'
          /\ ret'.status = "ok" =>
                RenderedBy(tts_calls') = Range(WantedUnits(doc)) \ files
          /\ ret = [op |-> "generate_audio", status |-> "ok"] =>
                /\ tts_calls' = <<>>
                /\ files' = files
      ]_vars

\* a run completed after an aborted one, rendering some but not all of the
\* wanted units, every wanted unit rendered once or left by the failed call
C11_Witness ==
    /\ ret = [op |-> "generate_audio", status |-> "ok"]
    /\ tts_calls # <<>>
    /\ Range(WantedUnits(doc)) \subseteq files
    /\ \E u \in DOMAIN render_count : u \notin RenderedBy(tts_calls)
    /\ \A u \in DOMAIN render_count : render_count[u] = 1

\* C16: every chunk unit generate_audio rendered for the document's chunks
\* map is exactly once in the plan stitch_audio builds for that document
\* and directory, also when the document has no chapter_count or its chunks
\* map has more chapters than chapter_count.
C16_RenderedChunksPlanned ==
    ret.op = "stitch_audio" =>
        \A u \in DOMAIN render_count :
            (u.kind = "chunk" /\ render_count[u] >= 1)
                => Occurrences(PlanNow, u) = 1

=============================================================================
